---- MODULE Spec2Model ----
(***************************************************************************)
(* Invite-link lifecycle of the invite bot (src/main.py, src/models.py).   *)
(*                                                                         *)
(* The bot is one asyncio process: a handler runs without interruption     *)
(* from one `await` to the next, and other handlers run only while it is   *)
(* suspended in an `await`.  Every action below is one such segment of a   *)
(* handler.  Each handler invocation owns its own SQLAlchemy session:      *)
(* session.add() keeps a row pending in the session, session.commit()      *)
(* writes the pending rows to the tables, and leaving the `with` block     *)
(* without a commit discards them.                                         *)
(***************************************************************************)
EXTENDS Integers, Sequences, FiniteSets, TLC

\* ---------------------------------------------------------------- bounds
MaxTime == 6            \* the clock runs 0..MaxTime (minutes)
MaxRequests == 3        \* handler invocations in one behaviour
MaxLinks == 2           \* links the platform creates in one behaviour
BatchRequests == 2      \* handler invocations in a behaviour with a full batch
NumTasks == 2           \* handler invocations in flight at once
JoinIndexWidth == 2     \* a join cites one of the first JoinIndexWidth links of a request

\* ------------------------------------------------------- program constants
MAX_LINKS_PER_REQUEST == 20
TTL == 5                \* timedelta(minutes=5)

\* ----------------------------------------------------------------- inputs
TgUsers == {101, 102}                   \* platform identifiers of the people
Handles == {"h1", "h2"}                 \* usernames a person may carry
Chats == {"G", "H"}                     \* chat ids an event may come from
Configs == {"G", ""}                    \* CHAT_ID: configured, or not set
Counts == {0, 2, 21}                    \* `/invite <n>`
BatchCounts == {20, 21}                 \* `/invite <n>` about the maximum
TickSteps == {TTL, TTL + 1}             \* minutes between two looks at the clock
MemberStatuses == {"left", "member", "administrator", "creator"}
EventStatuses == {"member", "kicked"}   \* KICKED | MEMBER filter
Tasks == 1..NumTasks

NULL == -1
NoToken == <<0, 0>>                     \* update.invite_link is None
ForeignToken == <<0, 1>>                \* a link this bot did not create

VARIABLES
    CHAT_ID,    \* config.CHAT_ID
    now,        \* datetime.utcnow()
    nreq,       \* handler invocations started so far
    budget,     \* what a behaviour is held to: invocations, links created, counts asked
    users,      \* table users: sequence of rows, id = position
    links,      \* table invite_links: sequence of rows, id = position
    logs,       \* table invitation_logs: sequence of rows
    platform,   \* invite links the platform has created for the bot
    notified,   \* ids of the links whose inviter received send_message
    task,       \* the handler invocations: their position and locals
    last        \* history: the invocation the last step ended, and how, or the
                \* membership answer and message text the last step decided on

vars == <<CHAT_ID, now, nreq, budget, users, links, logs, platform, notified, task, last>>

\* ------------------------------------------------------------ task record
Idle ==
    [pc |-> "idle", handler |-> "none", req |-> 0, user |-> 0,
     argn |-> 0, mass |-> FALSE, num |-> 0, i |-> 0,
     expires |-> NULL, inviter_id |-> 0, generated |-> <<>>, pending |-> <<>>,
     sess |-> FALSE, txn |-> FALSE, ncalls |-> 0,
     msg |-> "", told |-> {}, told_k |-> NULL, told_links |-> <<>>,
     token |-> NoToken, link_id |-> 0, chat |-> "", status |-> ""]

\* What is recorded of an invocation in the step that ends it: how it ended
\* and, for one that issued or consumed links, what it asked for and was told.
\* Every other step clears the record.
NoLast ==
    [handler |-> "none", req |-> 0, argn |-> 0, told |-> {}, told_k |-> NULL,
     told_links |-> <<>>, token |-> NoToken, link_id |-> 0, outcome |-> "",
     chat |-> "", status |-> "", kind |-> ""]

Ended(r, out) ==
    [handler |-> r.handler, req |-> r.req, argn |-> r.argn, told |-> r.told,
     told_k |-> r.told_k, told_links |-> r.told_links, token |-> r.token,
     link_id |-> r.link_id, outcome |-> out,
     chat |-> r.chat, status |-> r.status, kind |-> ""]

\* A handler suspended in a call to the platform.
InPlatformCall(r) == r.pc \in {"get_chat_member", "reply", "create_link", "send_message"}

\* ------------------------------------------------------------------ users
HasUser(us, tg) == \E k \in 1..Len(us) : us[k].telegram_id = tg

UserId(us, tg) == CHOOSE k \in 1..Len(us) : us[k].telegram_id = tg

\* get_or_create_user: the users table after the call.
get_or_create_user_AlwaysInsert(us, tg, h) ==
    Append(us, [telegram_id |-> tg, username |-> h])

get_or_create_user(us, tg, h) ==
    IF ~HasUser(us, tg)
    THEN Append(us, [telegram_id |-> tg, username |-> h])
    ELSE IF us[UserId(us, tg)].username # h
         THEN [us EXCEPT ![UserId(us, tg)].username = h]
         ELSE us

\* get_or_create_user commits exactly when it inserts or updates; otherwise
\* the transaction its query began stays open.
UserTxnOpen(us, tg, h) == get_or_create_user(us, tg, h) = us

\* ------------------------------------------------------------------ links
NewLink(tok, inviter, exp) ==
    [link |-> tok, inviter_id |-> inviter, is_active |-> TRUE,
     expires_at |-> exp, used_at |-> NULL]

\* filter(inviter_id == id, is_active == True, expires_at > now)
ActiveLinkFilter_AnyOwner(l, id, t) == l.is_active /\ l.expires_at > t

ActiveLinkFilter_NoExpiry(l, id, t) == l.inviter_id = id /\ l.is_active

ActiveLinkFilter(l, id, t) == l.inviter_id = id /\ l.is_active /\ l.expires_at > t

ActiveLinks(ls, id, t) == {k \in 1..Len(ls) : ActiveLinkFilter(ls[k], id, t)}

\* filter(InviteLink.link == link_str)
LinkByToken_Any(ls, tok) == 1..Len(ls)

LinkByToken(ls, tok) == {k \in 1..Len(ls) : ls[k].link = tok}

\* invite_link.expires_at < datetime.utcnow()
LinkExpired_Never(l, t) == FALSE

LinkExpired(l, t) == l.expires_at < t

\* ----------------------------------------------------------------- Init
Start ==
    /\ CHAT_ID \in Configs
    /\ now = 0
    /\ nreq = 0
    /\ users = <<>>
    /\ links = <<>>
    /\ logs = <<>>
    /\ platform = {}
    /\ notified = {}
    /\ task = [t \in Tasks |-> Idle]
    /\ last = NoLast

Init == Start /\ budget = [reqs |-> MaxRequests, links |-> MaxLinks, counts |-> Counts]

\* Few invocations, and room for a batch of MAX_LINKS_PER_REQUEST links.
InitBatch ==
    Start /\ budget = [reqs |-> BatchRequests, links |-> MAX_LINKS_PER_REQUEST + 1,
                       counts |-> BatchCounts]

\* Invocations are interchangeable: a new one takes the first free slot.
FreeTask(t) == task[t].pc = "idle" /\ \A s \in Tasks : s < t => task[s].pc # "idle"

\* People are interchangeable until the bot has seen them, and so are the
\* handles of a person: the next new person is the least one not yet seen,
\* and carries the first handle.
Seen == {users[k].telegram_id : k \in 1..Len(users)} \cup {task[t].user : t \in Tasks}

Persons ==
    (Seen \cap TgUsers) \cup
    (IF TgUsers \subseteq Seen THEN {}
     ELSE {CHOOSE u \in TgUsers \ Seen : \A v \in TgUsers \ Seen : u <= v})

HandlesOf(u) == IF HasUser(users, u) THEN Handles ELSE {"h1"}

\* ----------------------------------------------------------------- clock
Tick(d) ==
    /\ now + d <= MaxTime
    /\ now' = now + d
    /\ last' = NoLast
    /\ UNCHANGED <<CHAT_ID, nreq, budget, users, links, logs, platform, notified, task>>

\* A reply that ends the handler once it is sent; the handler reads none of
\* its locals after it.
ReplyWith(r, m) == [r EXCEPT !.pc = "reply", !.msg = m, !.req = 0, !.user = 0]

\* ---------------------------------------------------------------- /start
\* send_welcome, lines 51-55: the sender is upserted in a session of its own,
\* then greeted.
SendWelcome(t, u, h) ==
    /\ task[t].pc = "idle"
    /\ nreq < budget.reqs
    /\ nreq' = nreq + 1
    /\ users' = get_or_create_user(users, u, h)
    /\ task' = [task EXCEPT ![t] =
            ReplyWith([Idle EXCEPT !.handler = "start", !.user = u], "welcome")]
    /\ last' = NoLast
    /\ UNCHANGED <<CHAT_ID, now, budget, links, logs, platform, notified>>

\* --------------------------------------------------------------- /invite
\* The fields of the message (its text, the sender's handle) are drawn where
\* the handler first reads them.

\* invite, lines 77-88: up to the await of bot.get_chat_member.
InviteStart(t, u) ==
    /\ task[t].pc = "idle"
    /\ nreq < budget.reqs
    /\ nreq' = nreq + 1
    /\ LET r == [Idle EXCEPT !.handler = "invite", !.req = nreq + 1, !.user = u]
       IN  task' = [task EXCEPT ![t] =
                IF CHAT_ID = ""
                THEN ReplyWith(r, "not_configured")
                ELSE [r EXCEPT !.pc = "get_chat_member"]]
    /\ last' = NoLast
    /\ UNCHANGED <<CHAT_ID, now, budget, users, links, logs, platform, notified>>

\* invite, lines 120-122: a count above the maximum is cut down to it.
NumToGenerate_Unclamped(n) == n

NumToGenerate(n) == IF n > MAX_LINKS_PER_REQUEST THEN MAX_LINKS_PER_REQUEST ELSE n

\* invite, lines 125-129: the batch opens its session and announces itself.
BatchOpen(r, n, h) ==
    [r EXCEPT !.pc = "reply", !.msg = "generating", !.num = n,
              !.sess = TRUE,
              !.txn = UserTxnOpen(users, r.user, h),
              !.inviter_id = UserId(get_or_create_user(users, r.user, h), r.user),
              !.expires = now + TTL]

\* invite, lines 158-177: the single request looks its requester's active
\* link up; k is the row .first() returns, 0 when it returns None.
SingleLookup(r, k, h) ==
    LET us == get_or_create_user(users, r.user, h)
        id == UserId(us, r.user)
        s  == [r EXCEPT !.sess = TRUE, !.txn = TRUE, !.inviter_id = id]
    IN  IF k # 0
        THEN [s EXCEPT !.pc = "reply", !.msg = "conflict",
                       !.told_links = <<links[k].link>>]
        ELSE [s EXCEPT !.pc = "create_link", !.expires = now + TTL,
                       !.ncalls = r.ncalls + 1]

\* The rows .first() may return: the query has no ORDER BY.
FirstActive(r, h) ==
    LET us == get_or_create_user(users, r.user, h)
        found == ActiveLinks(links, UserId(us, r.user), now)
    IN  IF found = {} THEN {0} ELSE found

\* invite, line 89: member.status in ["member", "administrator", "creator"]
IsMember(st) == st \in {"member", "administrator", "creator"}

\* invite, line 112: member.status in ["administrator", "creator"]
IsAdmin_AnyMember(st) == st \in {"member", "administrator", "creator"}

IsAdmin(st) == st \in {"administrator", "creator"}

\* What the handler read in the step after bot.get_chat_member: the answer
\* and, when the membership check let it go on to line 98, the message text.
Checked(st, kind, n) ==
    [NoLast EXCEPT !.handler = "invite", !.outcome = "checked", !.status = st,
                   !.kind = IF IsMember(st) THEN kind ELSE "",
                   !.argn = IF IsMember(st) /\ kind = "int" THEN n ELSE 0]

\* invite, lines 88-177: bot.get_chat_member returns st, or raises ("error").
\* The message text is `/invite` (kind "none"), `/invite <n>` (kind "int")
\* or `/invite <not a number>` (kind "bad"); h is the sender's handle.
GetChatMemberReturn(t, st, kind, n, h) ==
    LET r == task[t] IN
    /\ r.pc = "get_chat_member"
    /\ IF st = "error"
       THEN /\ task' = [task EXCEPT ![t] = ReplyWith(r, "cant_verify")]
            /\ UNCHANGED users
       ELSE IF ~IsMember(st)
       THEN /\ task' = [task EXCEPT ![t] = ReplyWith(r, "not_member")]
            /\ UNCHANGED users
       ELSE IF kind = "bad"
       THEN /\ task' = [task EXCEPT ![t] = ReplyWith(r, "bad_number")]
            /\ UNCHANGED users
       ELSE IF kind = "int"
       THEN IF ~IsAdmin(st)
            THEN /\ task' = [task EXCEPT ![t] = ReplyWith(r, "admins_only")]
                 /\ UNCHANGED users
            ELSE IF n <= 0
            THEN /\ task' = [task EXCEPT ![t] = ReplyWith(r, "positive")]
                 /\ UNCHANGED users
            ELSE IF n > MAX_LINKS_PER_REQUEST
            THEN /\ task' = [task EXCEPT ![t] =
                        [r EXCEPT !.pc = "reply", !.msg = "clamp", !.mass = TRUE,
                                  !.argn = n, !.num = n]]
                 /\ UNCHANGED users
            ELSE /\ task' = [task EXCEPT ![t] =
                        BatchOpen([r EXCEPT !.mass = TRUE, !.argn = n],
                                  NumToGenerate(n), h)]
                 /\ users' = get_or_create_user(users, r.user, h)
       ELSE /\ \E k \in FirstActive(r, h) :
                 task' = [task EXCEPT ![t] = SingleLookup(r, k, h)]
            /\ users' = get_or_create_user(users, r.user, h)
    /\ last' = Checked(st, kind, n)
    /\ UNCHANGED <<CHAT_ID, now, nreq, budget, links, logs, platform, notified>>

\* Leaving the `with SessionLocal()` block: the session is closed and what
\* it held pending and uncommitted is discarded.
CloseSession(r) == [r EXCEPT !.sess = FALSE, !.txn = FALSE, !.pending = <<>>]

\* session.commit(): the pending rows reach the table.
Commit_Replacing(ls, pend) == pend

Commit(ls, pend) == ls \o pend

\* The handler returns, or an exception leaves it: its session is closed
\* with it, and the dispatcher is done with the invocation.
Return(t, r, out) ==
    /\ task' = [task EXCEPT ![t] = Idle]
    /\ last' = Ended(r, out)

\* invite, lines 133-154 and 177-192: bot.create_chat_invite_link returns a
\* link (ok) or raises.  The platform names the link; no two links it
\* creates share a name.
CreateLinkReturn(t, ok) ==
    LET r   == task[t]
        tok == <<r.req, r.i + 1>>
        row == NewLink(tok, r.inviter_id, r.expires)
    IN
    /\ r.pc = "create_link"
    /\ ok => Cardinality(platform) < budget.links
    /\ platform' = IF ok THEN platform \cup {tok} ELSE platform
    /\ IF r.mass
       THEN IF ~ok
            THEN /\ task' = [task EXCEPT ![t] =
                        [r EXCEPT !.pc = "reply", !.msg = "error_after"]]
                 /\ UNCHANGED links
            ELSE IF r.i + 1 < r.num
            THEN /\ task' = [task EXCEPT ![t] =
                        [r EXCEPT !.i = r.i + 1, !.ncalls = r.ncalls + 1,
                                  !.pending = Append(r.pending, row),
                                  !.generated = Append(r.generated, tok)]]
                 /\ UNCHANGED links
            ELSE /\ links' = Commit(links, Append(r.pending, row))
                 /\ task' = [task EXCEPT ![t] =
                        [CloseSession(r) EXCEPT !.pc = "reply", !.msg = "links",
                                  !.i = r.i + 1,
                                  !.generated = Append(r.generated, tok)]]
       ELSE IF ok
            THEN /\ links' = Commit(links, <<row>>)
                 /\ task' = [task EXCEPT ![t] =
                        [r EXCEPT !.pc = "reply", !.msg = "here_is", !.txn = FALSE,
                                  !.i = 1, !.generated = <<tok>>]]
            ELSE /\ task' = [task EXCEPT ![t] =
                        [r EXCEPT !.pc = "reply", !.msg = "need_admin"]]
                 /\ UNCHANGED links
    /\ last' = NoLast
    /\ UNCHANGED <<CHAT_ID, now, nreq, budget, users, logs, notified>>

\* What a reply tells the requester.
Tell(r) ==
    [r EXCEPT !.told = r.told \cup {r.msg},
              !.told_k = IF r.msg = "error_after" THEN r.i ELSE r.told_k,
              !.told_links = IF r.msg \in {"links", "here_is"} THEN r.generated
                             ELSE r.told_links]

FinalReplies ==
    {"not_configured", "cant_verify", "not_member", "bad_number", "admins_only",
     "positive", "error_after", "links", "conflict", "need_admin", "welcome"}

\* A reply after which the handler returns, whether the reply was sent (ok)
\* or message.reply raised.  The "not_member" reply (line 90) is inside the
\* try block of the membership check: when it raises, the handler answers
\* with the "cant_verify" text (line 94).
ReplyFinalReturn(t, ok) ==
    LET r == task[t] IN
    /\ r.pc = "reply"
    /\ r.msg \in FinalReplies
    /\ IF ok
       THEN Return(t, Tell(r), r.msg)
       ELSE IF r.msg = "not_member"
       THEN /\ task' = [task EXCEPT ![t] = [r EXCEPT !.msg = "cant_verify"]]
            /\ last' = NoLast
       ELSE Return(t, r, "raised")
    /\ UNCHANGED <<CHAT_ID, now, nreq, budget, users, links, logs, platform, notified>>

\* invite, lines 121-129: the clamp notice, then the batch goes on with
\* MAX_LINKS_PER_REQUEST links.
ReplyClampReturn(t, ok, h) ==
    LET r == task[t] IN
    /\ r.pc = "reply"
    /\ r.msg = "clamp"
    /\ IF ok
       THEN /\ task' = [task EXCEPT ![t] = BatchOpen(Tell(r), NumToGenerate(r.argn), h)]
            /\ users' = get_or_create_user(users, r.user, h)
            /\ last' = NoLast
       ELSE /\ Return(t, r, "raised")
            /\ UNCHANGED users
    /\ UNCHANGED <<CHAT_ID, now, nreq, budget, links, logs, platform, notified>>

\* invite, lines 129-133: "Generating n links", then the first link is asked for.
ReplyGeneratingReturn(t, ok) ==
    LET r == task[t] IN
    /\ r.pc = "reply"
    /\ r.msg = "generating"
    /\ IF ok
       THEN /\ task' = [task EXCEPT ![t] =
                   [Tell(r) EXCEPT !.pc = "create_link", !.msg = "",
                                   !.ncalls = r.ncalls + 1]]
            /\ last' = NoLast
       ELSE Return(t, r, "raised")
    /\ UNCHANGED <<CHAT_ID, now, nreq, budget, users, links, logs, platform, notified>>

\* invite, lines 189-192: the reply that carries the new link is inside the
\* try block, so a reply that raises is answered with the "need_admin" text.
ReplyHereIsReturn(t, ok) ==
    LET r == task[t] IN
    /\ r.pc = "reply"
    /\ r.msg = "here_is"
    /\ IF ok
       THEN Return(t, Tell(r), "here_is")
       ELSE /\ task' = [task EXCEPT ![t] = [r EXCEPT !.msg = "need_admin"]]
            /\ last' = NoLast
    /\ UNCHANGED <<CHAT_ID, now, nreq, budget, users, links, logs, platform, notified>>

\* ------------------------------------------------------------ join events
\* Tokens a join event may cite.
CitedTokens ==
    {NoToken, ForeignToken} \cup {tok \in platform : tok[2] <= JoinIndexWidth}

\* on_new_chat_member, lines 263-284: the row found for the cited link is
\* consumed when it is active and not expired.
Consumable_Always(l) == TRUE

Consumable(l) == l.is_active

\* on_new_chat_member, lines 274-278.
LogEntry_Swapped(l, k, invitee) ==
    [inviter_id |-> invitee, invitee_id |-> l.inviter_id, invite_link_id |-> k]

LogEntry(l, k, invitee) ==
    [inviter_id |-> l.inviter_id, invitee_id |-> invitee, invite_link_id |-> k]

\* on_new_chat_member, lines 265-267: deactivation of an expired link.
Expire_Stamped(l) == [l EXCEPT !.is_active = FALSE, !.used_at = l.expires_at]

Expire(l) == [l EXCEPT !.is_active = FALSE]

\* on_new_chat_member, lines 282-283: deactivation of a consumed link.
Consume_NoStamp(l, t) == [l EXCEPT !.is_active = FALSE]

Consume(l, t) == [l EXCEPT !.is_active = FALSE, !.used_at = t]

\* on_new_chat_member, lines 248-251: the event is dropped unless it comes
\* from the configured chat and its new status is "member".
Discarded_ChatOnly(chat, st) == chat # CHAT_ID

Discarded(chat, st) == chat # CHAT_ID \/ st # "member"

\* on_new_chat_member, lines 248-284 (no await before the commit).  The new
\* status is read only once the chat has matched.
JoinEvent(t, u, h, chat, st, tok) ==
    LET r  == [Idle EXCEPT !.handler = "join", !.user = u, !.token = tok,
                           !.chat = chat,
                           !.status = IF chat = CHAT_ID THEN st ELSE ""]
        us == get_or_create_user(users, u, h)
        found == LinkByToken(links, tok)
    IN
    /\ task[t].pc = "idle"
    /\ nreq < budget.reqs
    /\ nreq' = nreq + 1
    /\ IF Discarded(chat, st)
       THEN /\ Return(t, r, "discarded")
            /\ UNCHANGED <<users, links, logs>>
       ELSE /\ users' = us
            /\ IF tok = NoToken
               THEN /\ Return(t, r, "organic")
                    /\ UNCHANGED <<links, logs>>
               ELSE IF found = {} \/ (\A k \in found : ~Consumable(links[k]))
               THEN /\ Return(t, r, "stale")
                    /\ UNCHANGED <<links, logs>>
               ELSE LET k == CHOOSE k \in found : TRUE IN
                    IF LinkExpired(links[k], now)
                    THEN /\ links' = [links EXCEPT ![k] = Expire(links[k])]
                         /\ Return(t, [r EXCEPT !.link_id = k], "expired")
                         /\ UNCHANGED logs
                    ELSE /\ logs' = Append(logs, LogEntry(links[k], k, UserId(us, u)))
                         /\ links' = [links EXCEPT ![k] = Consume(links[k], now)]
                         /\ task' = [task EXCEPT ![t] =
                                [r EXCEPT !.pc = "send_message", !.sess = TRUE,
                                          !.link_id = k]]
                         /\ last' = NoLast
    /\ UNCHANGED <<CHAT_ID, now, budget, platform, notified>>

\* on_new_chat_member, lines 286-293: bot.send_message to the inviter
\* returns or raises; a failure is logged and nothing else.
SendMessageReturn_Rollback(t, ok) ==
    LET r == task[t] IN
    /\ r.pc = "send_message"
    /\ notified' = IF ok THEN notified \cup {r.link_id} ELSE notified
    /\ Return(t, r, IF ok THEN "notified" ELSE "not_notified")
    /\ IF ok
       THEN UNCHANGED <<links, logs>>
       ELSE /\ links' = [links EXCEPT ![r.link_id].is_active = TRUE,
                                      ![r.link_id].used_at = NULL]
            /\ logs' = SelectSeq(logs, LAMBDA e : e.invite_link_id # r.link_id)
    /\ UNCHANGED <<CHAT_ID, now, nreq, budget, users, platform>>

SendMessageReturn(t, ok) ==
    LET r == task[t] IN
    /\ r.pc = "send_message"
    /\ notified' = IF ok THEN notified \cup {r.link_id} ELSE notified
    /\ Return(t, r, IF ok THEN "notified" ELSE "not_notified")
    /\ UNCHANGED <<CHAT_ID, now, nreq, budget, users, links, logs, platform>>

\* The dispatcher starts a handler for a message or an event in the first
\* free slot; a suspended handler goes on when its platform call returns or
\* raises; the clock moves between two steps.
Next ==
    \/ \E d \in TickSteps : Tick(d)
    \/ \E t \in Tasks, u \in Persons :
          /\ FreeTask(t)
          /\ \/ InviteStart(t, u)
             \/ \E h \in HandlesOf(u) : SendWelcome(t, u, h)
             \/ \E h \in HandlesOf(u), chat \in Chats, st \in EventStatuses,
                   tok \in CitedTokens : JoinEvent(t, u, h, chat, st, tok)
    \/ \E t \in Tasks, st \in MemberStatuses \cup {"error"} :
          \E h \in HandlesOf(task[t].user) :
             \/ GetChatMemberReturn(t, st, "none", 0, h)
             \/ GetChatMemberReturn(t, st, "bad", 0, h)
             \/ \E n \in budget.counts : GetChatMemberReturn(t, st, "int", n, h)
    \/ \E t \in Tasks, ok \in BOOLEAN :
          \/ CreateLinkReturn(t, ok)
          \/ ReplyFinalReturn(t, ok)
          \/ \E h \in HandlesOf(task[t].user) : ReplyClampReturn(t, ok, h)
          \/ ReplyGeneratingReturn(t, ok)
          \/ ReplyHereIsReturn(t, ok)
          \/ SendMessageReturn(t, ok)

Spec == Init /\ [][Next]_vars

SpecBatch == InitBatch /\ [][Next]_vars

\* ================================================================ claims
LinkIds == 1..Len(links)

LogsOf(k) == {j \in 1..Len(logs) : logs[j].invite_link_id = k}

\* The rows of invite_links that invocation req created.
RowsOf(req) == {k \in LinkIds : links[k].link[1] = req}

\* The log rows a step appends that reference link k.
NewLogsOf(k) == {j \in (Len(logs) + 1)..Len(logs') : logs'[j].invite_link_id = k}

Least(a, b) == IF a < b THEN a ELSE b

\* C1. Exactly-once consumption: however many join events cite a link, one
\* after the other or while an earlier one is still suspended in its
\* notification, at most one InvitationLog row references the link; a link
\* a log row references is inactive, and a join that cites an inactive link
\* appends no log row and leaves the link as it was.
ExactlyOnceConsumption ==
    /\ [](\A k \in LinkIds :
            /\ Cardinality(LogsOf(k)) <= 1
            /\ LogsOf(k) # {} => ~links[k].is_active)
    /\ [][\A k \in LinkIds :
            ~links[k].is_active => NewLogsOf(k) = {} /\ links'[k] = links[k]]_vars

\* A join cited a link that an earlier join had consumed, while that earlier
\* join was still suspended in its notification.
ExactlyOnceWitness ==
    /\ last.handler = "join"
    /\ last.outcome = "stale"
    /\ \E t \in Tasks, k \in LinkIds :
          /\ task[t].pc = "send_message"
          /\ task[t].link_id = k
          /\ links[k].link = last.token
          /\ Cardinality(LogsOf(k)) = 1

\* C2. Single active link: every inviter has at most one InviteLink row that
\* is active and has expires_at > now.
SingleActiveLink ==
    \A id \in 1..Len(users) :
        Cardinality({k \in LinkIds : /\ links[k].inviter_id = id
                                     /\ links[k].is_active
                                     /\ links[k].expires_at > now}) <= 1

\* C3. No rollback on partial batch failure: when a batch has told its
\* requester that an error occurred after K links, exactly K InviteLink rows
\* of that request are in the store.
NoRollbackOnPartialFailure ==
    last.outcome = "error_after" => Cardinality(RowsOf(last.req)) = last.told_k

\* C4. Attribution correctness: every InvitationLog row references a link
\* whose owner is the row's inviter, and the row a join wrote names as
\* invitee the User row of the person who joined, for the link the join cited.
AttributionCorrect ==
    /\ \A j \in 1..Len(logs) :
          /\ logs[j].invite_link_id \in LinkIds
          /\ logs[j].inviter_id = links[logs[j].invite_link_id].inviter_id
    /\ \A t \in Tasks :
          task[t].pc = "send_message" =>
             /\ links[task[t].link_id].link = task[t].token
             /\ \E j \in LogsOf(task[t].link_id) :
                   /\ logs[j].invitee_id \in 1..Len(users)
                   /\ users[logs[j].invitee_id].telegram_id = task[t].user

\* A join consumed the link of another person.
AttributionWitness ==
    \E t \in Tasks :
        /\ task[t].pc = "send_message"
        /\ users[links[task[t].link_id].inviter_id].telegram_id # task[t].user

\* C5. An expired link is never attributed: no link is consumed after its
\* expiry time has passed; the join that cites an active link past its
\* expiry leaves it inactive with used_at null; and a link deactivated that
\* way has no InvitationLog row and its inviter no notification.
ExpiredNeverAttributed ==
    /\ \A k \in LinkIds :
          /\ links[k].used_at # NULL => links[k].used_at <= links[k].expires_at
          /\ ~links[k].is_active /\ links[k].used_at = NULL =>
                /\ LogsOf(k) = {}
                /\ k \notin notified
                /\ \A t \in Tasks : task[t].pc = "send_message" => task[t].link_id # k
    /\ last.outcome = "expired" =>
          /\ last.link_id \in LinkIds
          /\ links[last.link_id].expires_at < now
          /\ ~links[last.link_id].is_active
          /\ links[last.link_id].used_at = NULL

ExpiredWitness == last.handler = "join" /\ last.outcome = "expired"

\* C6. Conflict instead of re-issue: a single request asks the platform for
\* a link only if its requester owns no link that is active and unexpired;
\* otherwise it adds no row, has made no create-invite-link call, and
\* answers with the token of a link of the requester that is active and
\* unexpired at that moment.
ConflictInsteadOfReissue ==
    [][\A t \in Tasks :
         LET mine == {k \in LinkIds :
                         /\ HasUser(users, task[t].user)
                         /\ links[k].inviter_id = UserId(users, task[t].user)
                         /\ links[k].is_active
                         /\ links[k].expires_at > now}
         IN  /\ (task[t].pc = "get_chat_member" /\ task'[t].pc = "create_link")
                   => mine = {}
             /\ (task[t].pc = "get_chat_member" /\ task'[t].msg = "conflict")
                   => /\ links' = links
                      /\ platform' = platform
                      /\ task'[t].ncalls = 0
                      /\ \E k \in mine : task'[t].told_links = <<links[k].link>>
             /\ (task[t].msg = "conflict" /\ task'[t].pc = "idle")
                   => /\ links' = links
                      /\ platform' = platform]_vars

\* The requester was answered with the token of the link they own.
ConflictWitness ==
    /\ last.outcome = "conflict"
    /\ \E k \in LinkIds : last.told_links = <<links[k].link>> /\ links[k].is_active

\* C7. Expiry exclusion: the active-link lookup of a single request never
\* returns a link whose expires_at is not after now, although the row still
\* says is_active; and the link a single request issues carries a token no
\* row had and expires TTL after the request looked the clock up.
ExpiryExclusion ==
    [][\A t \in Tasks :
         /\ (task[t].pc = "get_chat_member" /\ task'[t].msg = "conflict")
               => \E k \in LinkIds : /\ task'[t].told_links = <<links[k].link>>
                                     /\ links[k].expires_at > now
         /\ (task[t].pc = "get_chat_member" /\ task'[t].pc = "create_link")
               => task'[t].expires = now + TTL
         /\ (task[t].pc = "create_link" /\ task'[t].msg = "here_is")
               => /\ Len(links') = Len(links) + 1
                  /\ \A k \in LinkIds : links'[k] = links[k]
                  /\ \A k \in LinkIds : links[k].link # links'[Len(links')].link
                  /\ links'[Len(links')].expires_at = task[t].expires
                  /\ links'[Len(links')].is_active]_vars

\* A single request has issued a link while its requester still owns an
\* older one that had expired by then but is marked active.
ExpiryExclusionWitness ==
    \E t \in Tasks, k1, k2 \in LinkIds :
        /\ task[t].msg = "here_is"
        /\ links[k2].link = <<task[t].req, 1>>
        /\ links[k1].inviter_id = links[k2].inviter_id
        /\ links[k1].is_active
        /\ links[k1].expires_at <= links[k2].expires_at - TTL
        /\ links[k1].link # links[k2].link

\* C8. Batch clamp: a batch for a positive count c whose link creations all
\* succeed adds exactly min(c, 20) rows, all active when they are added,
\* owned by the requester and with one expiry; the reply carries exactly
\* their tokens; and the requester was told of the clamp iff c > 20.
BatchClamp ==
    /\ [](\A t \in Tasks :
            task[t].msg = "links" =>
               LET rows == RowsOf(task[t].req) IN
               /\ task[t].argn > 0
               /\ Cardinality(rows) = Least(task[t].argn, 20)
               /\ Len(task[t].generated) = Cardinality(rows)
               /\ {links[k].link : k \in rows} =
                     {task[t].generated[j] : j \in 1..Len(task[t].generated)}
               /\ \A k \in rows :
                     /\ links[k].inviter_id = UserId(users, task[t].user)
                     /\ links[k].expires_at = task[t].expires)
    /\ [](last.outcome = "links" =>
            /\ Len(last.told_links) = Least(last.argn, 20)
            /\ {links[k].link : k \in RowsOf(last.req)} =
                  {last.told_links[j] : j \in 1..Len(last.told_links)}
            /\ ("clamp" \in last.told <=> last.argn > 20))
    /\ [][\A t \in Tasks :
            (task[t].msg # "links" /\ task'[t].msg = "links") =>
               /\ Len(links') = Len(links) + Least(task'[t].argn, 20)
               /\ \A k \in LinkIds : links'[k] = links[k]
               /\ \A k \in (Len(links) + 1)..Len(links') :
                     links'[k].is_active /\ links'[k].used_at = NULL]_vars

\* A batch asked for more than the maximum and was given its links.
BatchClampWitness ==
    /\ last.outcome = "links"
    /\ last.argn > MAX_LINKS_PER_REQUEST
    /\ Cardinality(RowsOf(last.req)) = MAX_LINKS_PER_REQUEST

\* C9. used_at marks use: an active link has used_at null; used_at is set
\* in the step that consumes the link (the step that deactivates it and
\* writes its InvitationLog row) and in no other; a deactivation without a
\* log row, the one for expiry, leaves it null; once set it does not change.
UsedAtMarksUse ==
    /\ [](\A k \in LinkIds : links[k].is_active => links[k].used_at = NULL)
    /\ [][\A k \in LinkIds :
            /\ (links[k].used_at = NULL /\ links'[k].used_at # NULL)
                  => /\ links[k].is_active
                     /\ ~links'[k].is_active
                     /\ NewLogsOf(k) # {}
            /\ (links[k].is_active /\ ~links'[k].is_active)
                  => (links'[k].used_at # NULL <=> NewLogsOf(k) # {})
            /\ links[k].used_at # NULL => links'[k].used_at = links[k].used_at]_vars

\* One link was consumed and another was deactivated because it had expired.
UsedAtWitness ==
    \E k1, k2 \in LinkIds :
        /\ ~links[k1].is_active /\ links[k1].used_at # NULL
        /\ ~links[k2].is_active /\ links[k2].used_at = NULL

\* C10. No handler suspended in a platform call holds a session, an open
\* transaction or uncommitted pending rows.
NoSessionAcrossCall ==
    \A t \in Tasks :
        InPlatformCall(task[t]) =>
           /\ ~task[t].sess
           /\ ~task[t].txn
           /\ task[t].pending = <<>>

\* C11. Attribution is independent of notification: the step in which
\* bot.send_message returns or raises changes no row of users, invite_links
\* or invitation_logs; while the notification is in flight and after it has
\* ended, either way, the link is inactive with used_at set and its one
\* InvitationLog row is in the table.
AttributionSurvivesNotification ==
    /\ [](\A t \in Tasks :
            task[t].pc = "send_message" =>
               /\ ~links[task[t].link_id].is_active
               /\ links[task[t].link_id].used_at # NULL
               /\ Cardinality(LogsOf(task[t].link_id)) = 1)
    /\ [](last.outcome \in {"notified", "not_notified"} =>
            /\ ~links[last.link_id].is_active
            /\ links[last.link_id].used_at # NULL
            /\ Cardinality(LogsOf(last.link_id)) = 1
            /\ (last.outcome = "notified" => last.link_id \in notified))
    /\ [][\A t \in Tasks :
            (task[t].pc = "send_message" /\ task'[t].pc # "send_message") =>
               /\ users' = users
               /\ links' = links
               /\ logs' = logs]_vars

\* A notification failed, and the inviter of the link was never notified.
NotificationFailedWitness ==
    /\ last.outcome = "not_notified"
    /\ last.link_id \notin notified
    /\ LogsOf(last.link_id) # {}

\* C13. A link's active flag only goes from true to false: no step makes an
\* inactive link active, removes a row or changes a row's token, owner or
\* expiry; a link that is inactive with used_at null (deactivated for
\* expiry) keeps used_at null and never gets an InvitationLog row; and no
\* step of an /invite handler changes a row that was already in the table.
ActiveOnlyFalls ==
    /\ [][/\ Len(links') >= Len(links)
          /\ \A k \in LinkIds :
                /\ links'[k].link = links[k].link
                /\ links'[k].inviter_id = links[k].inviter_id
                /\ links'[k].expires_at = links[k].expires_at
                /\ ~links[k].is_active => ~links'[k].is_active
                /\ (~links[k].is_active /\ links[k].used_at = NULL) =>
                      /\ links'[k].used_at = NULL
                      /\ NewLogsOf(k) = {}]_vars
    /\ [](\A k \in LinkIds :
            (~links[k].is_active /\ links[k].used_at = NULL) => LogsOf(k) = {})
    /\ [][\A t \in Tasks :
            (task[t] # task'[t] /\ "invite" \in {task[t].handler, task'[t].handler}) =>
               \A k \in LinkIds : links'[k] = links[k]]_vars

\* A join cited a link that had been deactivated for expiry, while an
\* /invite handler has committed a new link and is still running.
ActiveOnlyFallsWitness ==
    /\ last.handler = "join"
    /\ last.outcome = "stale"
    /\ \E k \in LinkIds :
          /\ links[k].link = last.token
          /\ ~links[k].is_active
          /\ links[k].used_at = NULL
    /\ \E t \in Tasks : task[t].msg = "here_is"

\* The tokens of the join events a step handles for a new member of the
\* configured group: the one join the step runs to its return or to the
\* await of its notification, if it runs one.
JoinHandled ==
    {last'.token : x \in IF /\ last'.handler = "join"
                            /\ last'.outcome \in {"organic", "stale", "expired"}
                         THEN {1} ELSE {}}
    \cup {task'[t].token : t \in {s \in Tasks : /\ task[s].pc = "idle"
                                                 /\ task'[s].pc = "send_message"}}

\* C14. A join that carries no token, or a token no row has, or the token of
\* an inactive row, changes no row of invite_links or invitation_logs,
\* starts no notification, and ends as organic or stale; of the users table
\* at most one row is added or changed, and no row changes its person.
UnattributableJoinIsInert ==
    [][\A tok \in JoinHandled :
          (\/ tok = NoToken
           \/ \A k \in LinkIds : links[k].link = tok => ~links[k].is_active) =>
             /\ links' = links
             /\ logs' = logs
             /\ notified' = notified
             /\ \A t \in Tasks : task'[t].pc = "send_message" => task[t].pc = "send_message"
             /\ last'.outcome = (IF tok = NoToken THEN "organic" ELSE "stale")
             /\ \A k \in 1..Len(users) : users'[k].telegram_id = users[k].telegram_id
             /\ Cardinality({k \in 1..Len(users') :
                               k > Len(users) \/ users'[k] # users[k]}) <= 1]_vars

\* A join cited a link this bot never stored, while a stored link was active,
\* and the join added its person to the users table.
UnattributableJoinWitness ==
    /\ last.handler = "join"
    /\ last.outcome = "stale"
    /\ last.token = ForeignToken
    /\ \E k \in LinkIds : links[k].is_active
    /\ Len(users) = 2

\* C19. Issuance and consumption agree on expiry: a link is consumed at time
\* t only if it satisfies the lookup's predicate expires_at > t, and a join
\* is turned away as expired only if its link does not satisfy it.
ExpiryAgreement ==
    /\ \A k \in LinkIds :
          links[k].used_at # NULL => links[k].expires_at > links[k].used_at
    /\ last.outcome = "expired" => ~(links[last.link_id].expires_at > now)

\* C20. Consumed links and attribution rows correspond one to one: in every
\* state, also while handlers are suspended, a link with used_at set is
\* referenced by exactly one InvitationLog row, and every InvitationLog row
\* references a row of invite_links that is inactive and has used_at set.
ConsumedIffLogged ==
    /\ \A k \in LinkIds :
          links[k].used_at # NULL => Cardinality(LogsOf(k)) = 1
    /\ \A j \in 1..Len(logs) :
          /\ logs[j].invite_link_id \in LinkIds
          /\ ~links[logs[j].invite_link_id].is_active
          /\ links[logs[j].invite_link_id].used_at # NULL

\* Two links have been consumed, each with its own log row, while the
\* notification of one of the two joins is still in flight.
ConsumedIffLoggedWitness ==
    /\ Len(logs) = 2
    /\ logs[1].invite_link_id # logs[2].invite_link_id
    /\ \E t \in Tasks : task[t].pc = "send_message"

\* C18. No retry, strictly sequential issuance: a request has made at most
\* one create-invite-link call per link asked for; the call that fails
\* creates no link and adds no row; the request then makes no further call
\* and goes on to its failure reply; and a single request that ends with the
\* failure reply has added no InviteLink row.
NoRetryNoRow ==
    /\ [](\A t \in Tasks :
            /\ task[t].ncalls <= (IF task[t].mass THEN task[t].num ELSE 1)
            /\ task[t].msg \in {"error_after", "need_admin"} => task[t].pc = "reply")
    /\ [][\A t \in Tasks :
            /\ (/\ task[t].pc = "create_link"
                /\ task'[t].msg \in {"error_after", "need_admin"}) =>
                  /\ platform' = platform
                  /\ links' = links
                  /\ task'[t].ncalls = task[t].ncalls
            /\ task[t].msg \in {"error_after", "need_admin"} =>
                  /\ task'[t].pc # "create_link"
                  /\ task'[t].ncalls \in {0, task[t].ncalls}]_vars
    /\ [](last.handler = "invite" /\ last.outcome = "need_admin" =>
            RowsOf(last.req) = {})

\* C17. Directory upsert on every interaction: when an /invite handler has
\* passed its membership check, granted or denied, and whenever a handler
\* is suspended after it, a User row of the person it serves exists.
DirectoryUpsert ==
    /\ [][\A t \in Tasks :
            (task[t].pc = "get_chat_member" /\ task'[t].pc # "get_chat_member") =>
               HasUser(users', task[t].user)]_vars
    /\ [](\A t \in Tasks :
            task[t].pc \in {"create_link", "send_message"} =>
               HasUser(users, task[t].user))

\* The replies that turn a request away before any link is asked for.
Denials ==
    {"not_configured", "cant_verify", "not_member", "bad_number", "admins_only",
     "positive"}

\* C12. Authorization gates issuance: the step that reads the membership
\* answer sends a single request on to the platform only when the answer is
\* member, administrator or creator, and opens a batch only when it is
\* administrator or creator and the count is positive; every other answer or
\* text ends in a denial; create-invite-link calls are made and rows added
\* only by requests that passed that step; and a denied request has made no
\* call, holds no row, and changes neither invite_links nor the platform.
AuthorizationGatesIssuance ==
    /\ [][\A t \in Tasks :
            (task[t].pc = "get_chat_member" /\ task'[t] # task[t]) =>
               LET single == /\ last'.status \in {"member", "administrator", "creator"}
                             /\ last'.kind = "none"
                   batch  == /\ last'.status \in {"administrator", "creator"}
                             /\ last'.kind = "int"
                             /\ last'.argn > 0
               IN  /\ last'.outcome = "checked"
                   /\ (task'[t].pc = "create_link" \/ task'[t].msg = "conflict") <=> single
                   /\ task'[t].msg \in {"generating", "clamp"} <=> batch
                   /\ task'[t].msg \in Denials <=> ~(single \/ batch)
                   /\ task'[t].pc = "reply" \/ task'[t].pc = "create_link"]_vars
    /\ [][\A t \in Tasks :
            /\ task'[t].ncalls > task[t].ncalls =>
                  \/ task[t].pc = "get_chat_member"
                  \/ task[t].msg = "generating"
                  \/ task[t].pc = "create_link" /\ task[t].mass
            /\ (task'[t].msg = "generating" /\ task[t].msg # "generating") =>
                  task[t].pc = "get_chat_member" \/ task[t].msg = "clamp"
            /\ (task[t].msg \in Denials /\ task'[t] # task[t]) =>
                  /\ task'[t] = Idle \/ task'[t].msg \in Denials
                  /\ links' = links
                  /\ platform' = platform]_vars
    /\ [][(links' # links /\ Len(links') > Len(links)) \/ platform' # platform =>
            \E t \in Tasks : task[t].pc = "create_link" /\ task[t].ncalls > 0]_vars
    /\ [](\A t \in Tasks :
            task[t].msg \in Denials =>
               /\ task[t].ncalls = 0
               /\ task[t].pending = <<>>
               /\ task[t].generated = <<>>)

\* A member who is not an administrator asked for a batch and was denied.
AuthorizationWitness ==
    /\ last.outcome = "checked"
    /\ last.status = "member"
    /\ last.kind = "int"
    /\ last.argn > 0
    /\ \E t \in Tasks : task[t].msg = "admins_only"

\* C15. A membership-change event from another chat than the configured
\* one, or whose new status is not "member", is discarded, and only such
\* events are; the step that discards it changes no row of users,
\* invite_links or invitation_logs, sends nothing and starts no handler.
DiscardedHasNoEffect ==
    /\ [](last.handler = "join" =>
            (last.outcome = "discarded" <=>
                (last.chat # CHAT_ID \/ last.status # "member")))
    /\ [](\A t \in Tasks :
            task[t].pc = "send_message" =>
               task[t].chat = CHAT_ID /\ task[t].status = "member")
    /\ [][last'.outcome = "discarded" =>
            /\ users' = users
            /\ links' = links
            /\ logs' = logs
            /\ notified' = notified
            /\ platform' = platform
            /\ task' = task]_vars

\* An event from the configured chat whose new status is not "member" was
\* discarded although it cited a link that is active and unexpired.
DiscardedWitness ==
    /\ last.outcome = "discarded"
    /\ last.chat = CHAT_ID
    /\ last.status = "kicked"
    /\ \E k \in LinkIds :
          /\ links[k].link = last.token
          /\ links[k].is_active
          /\ links[k].expires_at > now

\* C16. User Directory uniqueness: no two rows of users carry one platform
\* identifier, whatever the interleaving of /start, /invite and join
\* handlers; no step removes a row or changes the identifier of one.
UserUnique ==
    /\ [](\A i, j \in 1..Len(users) :
            users[i].telegram_id = users[j].telegram_id => i = j)
    /\ [][/\ Len(users') >= Len(users)
          /\ \A k \in 1..Len(users) : users'[k].telegram_id = users[k].telegram_id]_vars

\* One person, known under a second handle by now, is served by a /start
\* handler and an /invite handler at once.
UserUniqueWitness ==
    /\ Len(users) = 1
    /\ users[1].username = "h2"
    /\ \E t1, t2 \in Tasks :
          /\ task[t1].handler = "start"
          /\ task[t2].handler = "invite"
          /\ task[t2].pc = "create_link"
====
